---- MODULE Spec2Model ----
(***************************************************************************)
(* Model of the blog API backend: the express controller (request          *)
(* handlers), the prisma query layer and the node-cache wrapper.           *)
(*                                                                         *)
(* Several specifications share the module.                                *)
(*   SpecLike  the like toggle (query.post.toggleLike called from          *)
(*             controller.likePost), one step per storage call, so that    *)
(*             concurrent requests interleave between the await points.    *)
(*   Spec      the read cache and its invalidation: one action per         *)
(*             request handler, requests served one after the other.       *)
(*   SpecStore the cache store by itself (the node-cache instance behind   *)
(*             get, set and del), with the clock, the time to live of the  *)
(*             entries and the periodic sweep.                             *)
(*   SpecKeys  the cache key of the paginated list request, for pairs of   *)
(*             requests.                                                   *)
(*   SpecList  the paginated list request on a cold cache: the parsing of  *)
(*             page and limit and query.post.getPaginated over a table of  *)
(*             posts.                                                      *)
(*   SpecLikeFaults  the like toggle when a storage call may reject.       *)
(*   SpecRepeat      the same list request run twice on a cold cache.      *)
(*   SpecComments    the comment thread of a post: createComment,          *)
(*             updateComment, deleteComment and the cached thread.         *)
(*   SpecViews       the view counter of one post (registerView).          *)
(*   SpecRace        one cached read overlapping one mutation, one step    *)
(*             per await point.                                            *)
(*   SpecCachedList  the paginated list request with its cache, for        *)
(*             several requests over one unchanged table.                  *)
(***************************************************************************)
EXTENDS Integers, FiniteSets, Sequences, TLC

\* ---------------------------------------------------------------- bounds
MaxProcs == 2      \* request slots that can be in flight together
MaxUsers == 2      \* authenticated users
MaxCalls == 3      \* like requests started in one behaviour
MaxPosts == 2      \* posts ever created in one behaviour
MaxComments == 2   \* comments ever created in one behaviour
MaxRequests == 4   \* requests served by the cache model in one behaviour
MaxTicks == 2      \* advances of the clock in one behaviour of the store
MaxTtl == 1        \* largest ttl, in seconds, passed to set explicitly
MaxStoreOps == 3   \* get, set and del calls in one behaviour of the store
MaxRows == 3       \* rows of table Post in a list request's dataset
MaxPage == 3       \* largest page asked for
MaxLimit == 2      \* largest limit asked for
MaxThreadOps == 3  \* comment requests served in one behaviour of the comment model
MaxViewCalls == 3  \* view requests started in one behaviour
MaxRaceCalls == 4  \* requests started in one behaviour of the overlapping requests
MaxListCalls == 2  \* list requests served in one behaviour of the cached list

Procs == 1..MaxProcs
Users == 1..MaxUsers
PostIds == 1..MaxPosts
CommentIds == 1..MaxComments

VARIABLES
  likeRows,      \* UserLikePost table of the post: user -> row id, 0 = no row
  likes,         \* Post.likes of the post
  pc,            \* per request slot: position inside likePost/toggleLike
  reqUser,       \* per request slot: req.user.id
  existingLike,  \* per request slot: id of the row findUnique returned, 0 = null
  result,        \* per request slot: the last response sent
  nOk,           \* history: per user, number of toggles answered 200
  started,       \* history: number of like requests started
  overlap        \* history: TRUE once two like requests were in flight together

likeVars == <<likeRows, likes, pc, reqUser, existingLike, result, nOk, started, overlap>>

VARIABLES
  posts,         \* ids of the rows of table Post
  published,     \* ids of the posts with published = true
  nextPost,      \* the id the next created post gets (ids are never reused)
  comments,      \* table Comment: comment id -> postId, 0 = no such row
  nextComment,   \* the id the next created comment gets
  cache,         \* myCache: a function from the live keys to their values
  last,          \* history: the request served last and its response
  served         \* history: number of requests served

cacheVars == <<posts, published, nextPost, comments, nextComment, cache, last, served>>

VARIABLES
  now,           \* Date.now(), in seconds
  data,          \* myCache.data: the stored keys, each with its entry { t, v }
  got,           \* history: the last get, its answer and the set it read from
  stored,        \* history: per key, the last set that no del has undone
  ticks,         \* history: number of advances of the clock
  storeOps       \* history: number of get, set and del calls

storeVars == <<now, data, got, stored, ticks, storeOps>>

VARIABLES
  table,         \* the ids of the rows of table Post a list request runs over
  answer,        \* the list request made and what getBlogPosts computed for it
  repeat,        \* what a second execution of the same list query computed
  keyNow,        \* the list request whose cache key was built last, and the key
  keyPrev        \* the list request whose cache key was built before it, and the key

listVars == <<table, answer, repeat, keyNow, keyPrev>>

VARIABLES
  commentRows,   \* table Comment with its content: comment id -> row
  nextCommentId, \* the id the next created comment gets
  commentCache,  \* myCache, as the comment handlers see it
  commentReq,    \* history: the comment request served last and its response
  threadOps      \* history: number of comment requests served

commentVars == <<commentRows, nextCommentId, commentCache, commentReq, threadOps>>

VARIABLES
  postRow,       \* the row of the viewed post in table Post
  viewPc,        \* per request slot: position inside registerView
  viewClock,     \* the time of the database server
  viewsOk,       \* history: number of view requests answered 200
  viewCalls,     \* history: number of view requests started
  viewTicks      \* history: number of advances of viewClock

viewVars == <<postRow, viewPc, viewClock, viewsOk, viewCalls, viewTicks>>

VARIABLES
  readPc,        \* position of the read request in flight: idle, fetch or set
  readReq,       \* the read request in flight
  readLocal,     \* the read request's local result of its storage fetch
  writePc,       \* position of the mutating request in flight: idle, write or purge
  writeReq,      \* the mutating request in flight
  written,       \* the mutating request's local result of its write: the post
  raceDone,      \* history: the request answered last
  raceCalls      \* history: number of requests started

raceVars == <<readPc, readReq, readLocal, writePc, writeReq, written, raceDone, raceCalls>>

VARIABLES
  listCache,     \* myCache, as getBlogPosts sees it: key -> cached result
  reply,         \* history: the list request served last and its response
  listCalls      \* history: number of list requests served

cachedListVars == <<listCache, reply, listCalls>>

vars == <<likeRows, likes, pc, reqUser, existingLike, result, nOk, started, overlap,
          posts, published, nextPost, comments, nextComment, cache, last, served,
          now, data, got, stored, ticks, storeOps,
          table, answer, repeat, keyNow, keyPrev,
          commentRows, nextCommentId, commentCache, commentReq, threadOps,
          postRow, viewPc, viewClock, viewsOk, viewCalls, viewTicks,
          readPc, readReq, readLocal, writePc, writeReq, written, raceDone, raceCalls,
          listCache, reply, listCalls>>

\* what each part of the model leaves alone
otherThanLike ==
  <<cacheVars, storeVars, listVars, commentVars, viewVars, raceVars, cachedListVars>>
otherThanCache ==
  <<likeVars, storeVars, listVars, commentVars, viewVars, raceVars, cachedListVars>>
otherThanStore ==
  <<likeVars, cacheVars, listVars, commentVars, viewVars, raceVars, cachedListVars>>
otherThanList ==
  <<likeVars, cacheVars, storeVars, commentVars, viewVars, raceVars, cachedListVars>>
otherThanComments ==
  <<likeVars, cacheVars, storeVars, listVars, viewVars, raceVars, cachedListVars>>
otherThanViews ==
  <<likeVars, cacheVars, storeVars, listVars, commentVars, raceVars, cachedListVars>>
\* the overlapping requests work on the tables and the cache of the cache model
otherThanRace ==
  <<likeVars, storeVars, listVars, commentVars, viewVars, cachedListVars, last, served>>
otherThanCachedList ==
  <<likeVars, cacheVars, storeVars, listVars, commentVars, viewVars, raceVars>>

\* ------------------------------------------------------ like toggle model

NoResult == [status |-> 0, likes |-> 0, liked |-> FALSE, rows |-> 0,
             conflict |-> FALSE, n |-> 0]

RowCount(rows) == Cardinality({u \in Users : rows[u] # 0})

IdsInUse == {likeRows[u] : u \in Users} \cup {existingLike[q] : q \in Procs}

\* @default(uuid()): an id no live row and no in-flight request holds
FreshId == CHOOSE n \in 1..(MaxUsers + MaxProcs + 1) :
             /\ n \notin IdsInUse
             /\ \A m \in 1..(n - 1) : m \in IdsInUse

\* likes: { decrement: 1 }
decrementSkipped(n) == n
decrement(n) == n - 1

\* likes: { increment: 1 }
increment(n) == n + 1

\* the 200 response of likePost, with what the tables held when it was sent
Respond200(p, newLikes, liked, rows) ==
  /\ result' = [result EXCEPT ![p] =
        [status |-> 200, likes |-> newLikes, liked |-> liked,
         rows |-> RowCount(rows), conflict |-> FALSE,
         n |-> nOk[reqUser[p]] + 1]]
  /\ nOk' = [nOk EXCEPT ![reqUser[p]] = @ + 1]
  /\ pc' = [pc EXCEPT ![p] = "idle"]
  /\ existingLike' = [existingLike EXCEPT ![p] = 0]

\* the catch block of likePost: every error of toggleLike becomes an error response
Respond500(p, conflict) ==
  /\ result' = [result EXCEPT ![p] =
        [status |-> 500, likes |-> 0, liked |-> FALSE,
         rows |-> RowCount(likeRows), conflict |-> conflict, n |-> 0]]
  /\ pc' = [pc EXCEPT ![p] = "idle"]
  /\ existingLike' = [existingLike EXCEPT ![p] = 0]
  /\ UNCHANGED nOk

\* POST /api/posts/:postId/like arrives
likePost(p, u) ==
  /\ pc[p] = "idle"
  /\ started < MaxCalls
  /\ started' = started + 1
  /\ overlap' = (overlap \/ \E q \in Procs : q # p /\ pc[q] # "idle")
  /\ pc' = [pc EXCEPT ![p] = "find"]
  /\ reqUser' = [reqUser EXCEPT ![p] = u]
  /\ UNCHANGED <<likeRows, likes, existingLike, result, nOk>>
  /\ UNCHANGED otherThanLike

\* prisma.userLikePost.findUnique({ where: { userId_postId } })
findExistingLike(p) ==
  /\ pc[p] = "find"
  /\ existingLike' = [existingLike EXCEPT ![p] = likeRows[reqUser[p]]]
  /\ pc' = [pc EXCEPT ![p] = IF likeRows[reqUser[p]] # 0 THEN "delete" ELSE "create"]
  /\ UNCHANGED <<likeRows, likes, reqUser, result, nOk, started, overlap>>
  /\ UNCHANGED otherThanLike

\* prisma.userLikePost.delete({ where: { id: existingLike.id } })
deleteLike(p) ==
  /\ pc[p] = "delete"
  /\ IF likeRows[reqUser[p]] = existingLike[p]
       THEN /\ likeRows' = [likeRows EXCEPT ![reqUser[p]] = 0]
            /\ pc' = [pc EXCEPT ![p] = "decrement"]
            /\ UNCHANGED <<existingLike, result, nOk>>
       ELSE \* P2025, record to delete does not exist: rethrown
            /\ Respond500(p, FALSE)
            /\ UNCHANGED likeRows
  /\ UNCHANGED <<likes, reqUser, started, overlap>>
  /\ UNCHANGED otherThanLike

\* prisma.post.update({ data: { likes: { decrement: 1 } } }), then the response
decrementLikes(p) ==
  /\ pc[p] = "decrement"
  /\ likes' = decrement(likes)
  /\ Respond200(p, decrement(likes), FALSE, likeRows)
  /\ UNCHANGED <<likeRows, reqUser, started, overlap>>
  /\ UNCHANGED otherThanLike

\* prisma.userLikePost.create({ data: { userId, postId } })
createLike(p) ==
  /\ pc[p] = "create"
  /\ IF likeRows[reqUser[p]] = 0
       THEN /\ likeRows' = [likeRows EXCEPT ![reqUser[p]] = FreshId]
            /\ pc' = [pc EXCEPT ![p] = "increment"]
            /\ UNCHANGED <<existingLike, result, nOk>>
       ELSE \* P2002, @@unique([userId, postId]) violated: rethrown
            /\ Respond500(p, TRUE)
            /\ UNCHANGED likeRows
  /\ UNCHANGED <<likes, reqUser, started, overlap>>
  /\ UNCHANGED otherThanLike

\* prisma.post.update({ data: { likes: { increment: 1 } } }), then the response
incrementLikes(p) ==
  /\ pc[p] = "increment"
  /\ likes' = increment(likes)
  /\ Respond200(p, increment(likes), TRUE, likeRows)
  /\ UNCHANGED <<likeRows, reqUser, started, overlap>>
  /\ UNCHANGED otherThanLike

InitLike ==
  /\ likeRows = [u \in Users |-> 0]
  /\ likes = 0
  /\ pc = [p \in Procs |-> "idle"]
  /\ reqUser = [p \in Procs |-> 1]
  /\ existingLike = [p \in Procs |-> 0]
  /\ result = [p \in Procs |-> NoResult]
  /\ nOk = [u \in Users |-> 0]
  /\ started = 0
  /\ overlap = FALSE

NextLike ==
  \/ \E p \in Procs, u \in Users : likePost(p, u)
  \/ \E p \in Procs : findExistingLike(p)
  \/ \E p \in Procs : deleteLike(p)
  \/ \E p \in Procs : decrementLikes(p)
  \/ \E p \in Procs : createLike(p)
  \/ \E p \in Procs : incrementLikes(p)

\* prisma.post.update of toggleLike rejects (the store fails, or the post is gone)
\* after userLikePost.delete or userLikePost.create went through: toggleLike
\* rethrows and the catch block of likePost answers; nothing undoes the first write
postUpdateRejects(p) ==
  /\ pc[p] \in {"decrement", "increment"}
  /\ Respond500(p, FALSE)
  /\ UNCHANGED <<likeRows, likes, reqUser, started, overlap>>
  /\ UNCHANGED otherThanLike

\* the like toggle with storage calls that may fail
NextLikeFaults ==
  \/ NextLike
  \/ \E p \in Procs : postUpdateRejects(p)

\* ------------------------------------------------------------ cache keys

Undefined == "undefined"   \* an argument or query parameter that was not given

Digit == <<"0", "1", "2", "3", "4", "5", "6", "7", "8", "9">>

\* a number as the template literal `${n}` renders it
RECURSIVE ToStr(_)
ToStr(n) == IF n < 0 THEN "-" \o ToStr(-n)
            ELSE IF n < 10 THEN Digit[n + 1]
            ELSE ToStr(n \div 10) \o Digit[(n % 10) + 1]

\* a parameter with a default value: the default applies when it is undefined
Default(arg, dflt) == IF arg = Undefined THEN dflt ELSE arg

\* A key `ns:a:b` is kept as the tuple <<ns, a, b>>; startsWith("ns:") reads item 1.
ALL_BLOG_POSTS == <<"all_blog_posts">>

BLOG_POSTS_LIST(filter, sort, page, limit) ==
  <<"blog_posts_list", Default(filter, "all"), Default(sort, "date"),
    Default(page, "1"), Default(limit, "10")>>

BLOG_POST_DETAIL(postId) == <<"blog_post_detail", postId>>

POST_COMMENTS(postId) == <<"post_comments", postId>>

startsWith(key, ns) == key[1] = ns

\* ----------------------------------------------------------- cache store

\* myCache.get(key) of a live key
get(c, key) == c[key]

\* `if (cached)` after get: undefined for an absent key, and every value the
\* handlers store is an array or an object, which is truthy
isHit(c, key) == key \in DOMAIN c

set(c, key, value) ==
  [k \in (DOMAIN c) \cup {key} |-> IF k = key THEN value ELSE c[k]]

del(c, key) == [k \in (DOMAIN c) \ {key} |-> c[k]]

delMany(c, ks) == [k \in (DOMAIN c) \ ks |-> c[k]]

keys(c) == DOMAIN c

invalidateAllBlogCaches(c, postId) ==
  LET c1 == del(c, ALL_BLOG_POSTS)
      c2 == IF postId # 0
              THEN del(del(c1, BLOG_POST_DETAIL(postId)), POST_COMMENTS(postId))
              ELSE c1
      dashboardKeys == {k \in keys(c2) : startsWith(k, "dashboard_data")}
  IN  IF dashboardKeys # {} THEN delMany(c2, dashboardKeys) ELSE c2

\* ------------------------------------------------------------ query layer

\* query.post.getAll: every post
getAll == posts

\* query.post.getAllPost: where { published: true }
getAllPost_query == published

\* query.post.getPaginated, the where clause (every post fits one page here)
getPaginated(filter) ==
  IF filter # Undefined /\ filter # "all"
    THEN IF filter = "published" THEN published ELSE posts \ published
    ELSE posts

\* query.comment.getByPostId
getByPostId(postId) == {c \in CommentIds : comments[c] = postId}

\* onDelete: Cascade of Comment.post
cascade(cs, gone) == [c \in CommentIds |-> IF cs[c] \in gone THEN 0 ELSE cs[c]]

\* --------------------------------------------------------------- requests

NoRequest == [op |-> "none", status |-> 0, post |-> 0, ids |-> {}, body |-> {},
              hit |-> FALSE, hadAll |-> FALSE, prevCreated |-> 0, prevHadAll |-> FALSE,
              wrote |-> FALSE, fault |-> "none"]

\* the handlers that write to the store
Mutations == {"createBlogPost", "updateBlogPost", "deleteBlogPost", "deleteAllBlogPosts",
              "createComment", "updateComment", "deleteComment", "registerView",
              "likePost"}

\* The history record of the request just served. post: the post of a request that
\* succeeded or wrote to storage (0 for one refused before any write); hit: a read
\* was answered from the cache; hadAll: an all-posts list was cached when the request arrived;
\* prevCreated, prevHadAll: the post the request before this one created (0 if it
\* was no successful createBlogPost) and that request's hadAll; wrote: the
\* request's storage write was committed; fault: the cache call that threw while
\* the request was served ("none", "get", "set" or "del").
Responded(op, status, post, ids, body, hit, wrote, fault) ==
  /\ served < MaxRequests
  /\ served' = served + 1
  /\ last' = [op |-> op, status |-> status,
           post |-> IF status \in {200, 201} \/ wrote THEN post ELSE 0,
           ids |-> ids, body |-> body,
           hit |-> hit, hadAll |-> isHit(cache, ALL_BLOG_POSTS),
           prevCreated |-> IF last.op = "createBlogPost" /\ last.status = 201
                             THEN last.post ELSE 0,
           prevHadAll |-> last.op = "createBlogPost" /\ last.status = 201 /\ last.hadAll,
           wrote |-> wrote, fault |-> fault]

\* a request served with no cache call throwing
Served(op, status, post, ids, body, hit) ==
  Responded(op, status, post, ids, body, hit,
            op \in Mutations /\ status \in {200, 201}, "none")

\* the catch block of a mutating handler reached from a throwing cache call: the
\* storage write is committed, the error has no prisma code and no prisma text
CacheCallThrew(op, post, ids) == Responded(op, 500, post, ids, {}, FALSE, TRUE, "del")

DefaultPage == 1
DefaultLimit == 10

FilterInputs == {Undefined, "published", "unpublished"}
BodyInputs == {"empty", "badTags", "title", "publish", "unpublish"}

CacheFaults == {"none", "get", "set"}

\* createBlogPost's purge: cache.del(CACHE_KEYS.ALL_BLOG_POSTS())
invalidateOnCreateSkipped(c) == c
invalidateOnCreate(c) == del(c, ALL_BLOG_POSTS)

\* In every mutating handler the cache calls stand inside the try block, after the
\* awaited storage write. cacheOk = FALSE: the first of them throws, so the cache is
\* left as it was and the catch block answers.

\* POST /api/admin/posts
createBlogPost(isPublished, tagsOk, dbOk, cacheOk) ==
  /\ nextPost <= MaxPosts
  /\ IF ~tagsOk
       THEN /\ Served("createBlogPost", 400, 0, {}, {}, FALSE)
            /\ UNCHANGED <<posts, published, nextPost, cache>>
       ELSE IF ~dbOk
         THEN /\ Served("createBlogPost", 500, 0, {}, {}, FALSE)
              /\ UNCHANGED <<posts, published, nextPost, cache>>
         ELSE /\ posts' = posts \cup {nextPost}
              /\ published' = IF isPublished THEN published \cup {nextPost} ELSE published
              /\ nextPost' = nextPost + 1
              /\ IF cacheOk
                   THEN /\ cache' = invalidateOnCreate(cache)
                        /\ Served("createBlogPost", 201, nextPost, {}, {}, FALSE)
                   ELSE /\ UNCHANGED cache
                        /\ CacheCallThrew("createBlogPost", nextPost, {})
  /\ UNCHANGED <<comments, nextComment>>
  /\ UNCHANGED otherThanCache

\* a cached read: the cached value when there is one, else fetch and cache.
\* cache.get stands before the try block: when it throws, the rejected handler
\* reaches the default error handler of express 5. cache.set stands inside the try
\* block after the awaited fetch: when it throws, the catch block answers.
CachedRead(op, key, post, fetched, dbOk, fault) ==
  /\ IF fault = "get"
       THEN /\ Responded(op, 500, post, {}, {}, FALSE, FALSE, "get")
            /\ UNCHANGED cache
       ELSE IF isHit(cache, key)
         THEN /\ Served(op, 200, post, {}, get(cache, key), TRUE)
              /\ UNCHANGED cache
         ELSE IF ~dbOk
           THEN /\ Served(op, 500, post, {}, {}, FALSE)
                /\ UNCHANGED cache
           ELSE IF fault = "set"
             THEN /\ Responded(op, 500, post, {}, {}, FALSE, FALSE, "set")
                  /\ UNCHANGED cache
             ELSE /\ cache' = set(cache, key, fetched)
                  /\ Served(op, 200, post, {}, fetched, FALSE)
  /\ UNCHANGED <<posts, published, nextPost, comments, nextComment>>
  /\ UNCHANGED otherThanCache

\* GET /api/admin/all-posts
getAllBlogPosts(dbOk, fault) ==
  CachedRead("getAllBlogPosts", ALL_BLOG_POSTS, 0, getAll, dbOk, fault)

\* GET /api/posts
getAllPost(dbOk, fault) ==
  CachedRead("getAllPost", ALL_BLOG_POSTS, 0, getAllPost_query, dbOk, fault)

\* getBlogPosts calls the four-parameter builder with five arguments
\* (search, filter, sort, pageNum, limitNum): the fifth is dropped
BLOG_POSTS_LIST_5(a1, a2, a3, a4, a5) == BLOG_POSTS_LIST(a1, a2, a3, a4)

\* the paginated list read; page and limit are not given here, so that
\* parseInt(page) || 1 and parseInt(limit) || 10 give the defaults
getBlogPosts(search, filter, sort, dbOk, fault) ==
  LET pageNum == DefaultPage
      limitNum == DefaultLimit
  IN  CachedRead("getBlogPosts",
                 BLOG_POSTS_LIST_5(search, filter, sort, ToStr(pageNum), ToStr(limitNum)),
                 0, getPaginated(filter), dbOk, fault)

\* GET /api/posts/:postId/comments
getCommentsForPost(postId, dbOk, fault) ==
  CachedRead("getCommentsForPost", POST_COMMENTS(postId), postId,
             getByPostId(postId), dbOk, fault)

\* PATCH /api/admin/posts/:postId
updateBlogPost(postId, body, dbOk, cacheOk) ==
  /\ IF body \in {"empty", "badTags"}
       THEN /\ Served("updateBlogPost", 400, postId, {}, {}, FALSE)
            /\ UNCHANGED <<published, cache>>
       ELSE IF ~dbOk
         THEN /\ Served("updateBlogPost", 500, postId, {}, {}, FALSE)
              /\ UNCHANGED <<published, cache>>
         ELSE IF postId \notin posts
           THEN \* P2025
                /\ Served("updateBlogPost", 404, postId, {}, {}, FALSE)
                /\ UNCHANGED <<published, cache>>
           ELSE /\ published' = CASE body = "publish" -> published \cup {postId}
                                  [] body = "unpublish" -> published \ {postId}
                                  [] OTHER -> published
                /\ IF cacheOk
                     THEN /\ cache' = invalidateAllBlogCaches(cache, postId)
                          /\ Served("updateBlogPost", 200, postId, {}, {}, FALSE)
                     ELSE /\ UNCHANGED cache
                          /\ CacheCallThrew("updateBlogPost", postId, {})
  /\ UNCHANGED <<posts, nextPost, comments, nextComment>>
  /\ UNCHANGED otherThanCache

\* DELETE /api/admin/posts/:postId
deleteBlogPost(postId, dbOk, cacheOk) ==
  /\ IF ~dbOk
       THEN /\ Served("deleteBlogPost", 500, postId, {}, {}, FALSE)
            /\ UNCHANGED <<posts, published, comments, cache>>
       ELSE IF postId \notin posts
         THEN \* P2025
              /\ Served("deleteBlogPost", 404, postId, {}, {}, FALSE)
              /\ UNCHANGED <<posts, published, comments, cache>>
         ELSE /\ posts' = posts \ {postId}
              /\ published' = published \ {postId}
              /\ comments' = cascade(comments, {postId})
              /\ IF cacheOk
                   THEN /\ cache' = invalidateAllBlogCaches(cache, postId)
                        /\ Served("deleteBlogPost", 200, postId, {}, {}, FALSE)
                   ELSE /\ UNCHANGED cache
                        /\ CacheCallThrew("deleteBlogPost", postId, {})
  /\ UNCHANGED <<nextPost, nextComment>>
  /\ UNCHANGED otherThanCache

\* POST /api/admin/posts/bulk-delete; ids records the posts that were deleted
deleteAllBlogPosts(postIds, dbOk, cacheOk) ==
  /\ IF postIds = {}
       THEN /\ Served("deleteAllBlogPosts", 400, 0, {}, {}, FALSE)
            /\ UNCHANGED <<posts, published, comments, cache>>
       ELSE IF ~dbOk
         THEN /\ Served("deleteAllBlogPosts", 500, 0, {}, {}, FALSE)
              /\ UNCHANGED <<posts, published, comments, cache>>
         ELSE /\ posts' = posts \ postIds
              /\ published' = published \ postIds
              /\ comments' = cascade(comments, postIds)
              /\ IF cacheOk
                   THEN /\ cache' = invalidateAllBlogCaches(cache, 0)
                        /\ Served("deleteAllBlogPosts", 200, 0, postIds \cap posts, {}, FALSE)
                   ELSE /\ UNCHANGED cache
                        /\ CacheCallThrew("deleteAllBlogPosts", 0, postIds \cap posts)
  /\ UNCHANGED <<nextPost, nextComment>>
  /\ UNCHANGED otherThanCache

\* POST /api/posts/:postId/comments
createComment(postId, contentOk, dbOk, cacheOk) ==
  /\ nextComment <= MaxComments
  /\ IF ~contentOk
       THEN /\ Served("createComment", 400, postId, {}, {}, FALSE)
            /\ UNCHANGED <<comments, nextComment, cache>>
       ELSE IF ~dbOk \/ postId \notin posts
         THEN \* the post to connect does not exist, or the store failed
              /\ Served("createComment", 500, postId, {}, {}, FALSE)
              /\ UNCHANGED <<comments, nextComment, cache>>
         ELSE /\ comments' = [comments EXCEPT ![nextComment] = postId]
              /\ nextComment' = nextComment + 1
              /\ IF cacheOk
                   THEN /\ cache' = del(del(del(cache, POST_COMMENTS(postId)),
                                            ALL_BLOG_POSTS),
                                        BLOG_POST_DETAIL(postId))
                        /\ Served("createComment", 201, postId, {}, {}, FALSE)
                   ELSE /\ UNCHANGED cache
                        /\ CacheCallThrew("createComment", postId, {})
  /\ UNCHANGED <<posts, published, nextPost>>
  /\ UNCHANGED otherThanCache

\* PATCH /api/:postId/comments/:commentId; post records the comment's own post
updateComment(postId, commentId, dbOk, cacheOk) ==
  /\ IF ~dbOk \/ comments[commentId] = 0
       THEN \* P2025 or a store failure
            /\ Served("updateComment", 500, 0, {}, {}, FALSE)
            /\ UNCHANGED cache
       ELSE IF cacheOk
         THEN /\ cache' = del(del(del(cache, POST_COMMENTS(postId)), ALL_BLOG_POSTS),
                              BLOG_POST_DETAIL(postId))
              /\ Served("updateComment", 200, comments[commentId], {}, {}, FALSE)
         ELSE /\ UNCHANGED cache
              /\ CacheCallThrew("updateComment", comments[commentId], {})
  /\ UNCHANGED <<posts, published, nextPost, comments, nextComment>>
  /\ UNCHANGED otherThanCache

\* DELETE /api/comments/:commentId; post records the comment's own post
deleteComment(commentId, dbOk, cacheOk) ==
  /\ IF ~dbOk
       THEN /\ Served("deleteComment", 500, 0, {}, {}, FALSE)
            /\ UNCHANGED <<comments, cache>>
       ELSE IF comments[commentId] = 0
         THEN \* P2025, rethrown as "Comment with ID ... not found."
              /\ Served("deleteComment", 404, 0, {}, {}, FALSE)
              /\ UNCHANGED <<comments, cache>>
         ELSE /\ comments' = [comments EXCEPT ![commentId] = 0]
              /\ IF cacheOk
                   THEN /\ cache' = del(del(cache, POST_COMMENTS(comments[commentId])),
                                        BLOG_POST_DETAIL(comments[commentId]))
                        /\ Served("deleteComment", 200, comments[commentId], {}, {}, FALSE)
                   ELSE /\ UNCHANGED cache
                        /\ CacheCallThrew("deleteComment", comments[commentId], {})
  /\ UNCHANGED <<posts, published, nextPost, nextComment>>
  /\ UNCHANGED otherThanCache

\* the purge of registerView and of likePost: cache.del(BLOG_POST_DETAIL(postId))
invalidateOnEngagementWide(c, postId) == invalidateAllBlogCaches(c, postId)
invalidateOnEngagement(c, postId) == del(c, BLOG_POST_DETAIL(postId))

\* the status the catch block of registerView and likePost gives a prisma error:
\* 404 when its text holds "Record to update not found", else 500
NotFoundOrError == {404, 500}

\* an engagement handler: one awaited query call, the purge, the response.
\* Post.views and the like tables are no input of any cached read modelled here;
\* the like tables are the subject of SpecLike.
Engagement(op, postId, dbOk, cacheOk) ==
  /\ IF ~dbOk
       THEN /\ Served(op, 500, postId, {}, {}, FALSE)
            /\ UNCHANGED cache
       ELSE IF postId \notin posts
         THEN \* P2025 of post.update, or the foreign key of userLikePost.create
              /\ \E missing \in NotFoundOrError : Served(op, missing, postId, {}, {}, FALSE)
              /\ UNCHANGED cache
         ELSE IF cacheOk
           THEN /\ cache' = invalidateOnEngagement(cache, postId)
                /\ Served(op, 200, postId, {}, {}, FALSE)
           ELSE /\ UNCHANGED cache
                /\ CacheCallThrew(op, postId, {})
  /\ UNCHANGED <<posts, published, nextPost, comments, nextComment>>
  /\ UNCHANGED otherThanCache

\* POST /api/posts/:postId/view
registerView(postId, dbOk, cacheOk) ==
  Engagement("registerView", postId, dbOk, cacheOk)

\* POST /api/posts/:postId/like with toggleLike as one storage call
likePostServed(postId, dbOk, cacheOk) ==
  Engagement("likePost", postId, dbOk, cacheOk)

InitCache ==
  /\ posts = {}
  /\ published = {}
  /\ nextPost = 1
  /\ comments = [c \in CommentIds |-> 0]
  /\ nextComment = 1
  /\ cache = <<>>
  /\ last = NoRequest
  /\ served = 0

\* A handler answers at the first failure it meets, so a request is given at most
\* one: a second one would never be reached.
AtMostOne(failures) == Cardinality({i \in DOMAIN failures : failures[i]}) <= 1

Next ==
  \/ \E isPublished, tagsOk, dbOk, cacheOk \in BOOLEAN :
        /\ served < MaxRequests
        /\ AtMostOne(<<~tagsOk, ~dbOk, ~cacheOk>>)
        /\ createBlogPost(isPublished, tagsOk, dbOk, cacheOk)
  \/ \E dbOk \in BOOLEAN, fault \in CacheFaults :
        /\ served < MaxRequests
        /\ AtMostOne(<<~dbOk, fault # "none">>)
        /\ getAllBlogPosts(dbOk, fault)
  \/ \E dbOk \in BOOLEAN, fault \in CacheFaults :
        /\ served < MaxRequests
        /\ AtMostOne(<<~dbOk, fault # "none">>)
        /\ getAllPost(dbOk, fault)
  \/ \E filter \in FilterInputs, dbOk \in BOOLEAN, fault \in CacheFaults :
        /\ served < MaxRequests
        /\ AtMostOne(<<~dbOk, fault # "none">>)
        /\ getBlogPosts(Undefined, filter, Undefined, dbOk, fault)
  \/ \E postId \in PostIds, dbOk \in BOOLEAN, fault \in CacheFaults :
        /\ served < MaxRequests
        /\ AtMostOne(<<~dbOk, fault # "none">>)
        /\ getCommentsForPost(postId, dbOk, fault)
  \/ \E postId \in PostIds, body \in BodyInputs, dbOk, cacheOk \in BOOLEAN :
        /\ served < MaxRequests
        /\ AtMostOne(<<body \in {"empty", "badTags"}, ~dbOk, ~cacheOk>>)
        /\ updateBlogPost(postId, body, dbOk, cacheOk)
  \/ \E postId \in PostIds, dbOk, cacheOk \in BOOLEAN :
        /\ served < MaxRequests
        /\ AtMostOne(<<~dbOk, ~cacheOk>>)
        /\ deleteBlogPost(postId, dbOk, cacheOk)
  \/ \E postIds \in SUBSET PostIds, dbOk, cacheOk \in BOOLEAN :
        /\ served < MaxRequests
        /\ AtMostOne(<<postIds = {}, ~dbOk, ~cacheOk>>)
        /\ deleteAllBlogPosts(postIds, dbOk, cacheOk)
  \/ \E postId \in PostIds, contentOk, dbOk, cacheOk \in BOOLEAN :
        /\ served < MaxRequests
        /\ AtMostOne(<<~contentOk, ~dbOk, ~cacheOk>>)
        /\ createComment(postId, contentOk, dbOk, cacheOk)
  \/ \E postId \in PostIds, commentId \in CommentIds, dbOk, cacheOk \in BOOLEAN :
        /\ served < MaxRequests
        /\ AtMostOne(<<~dbOk, ~cacheOk>>)
        /\ updateComment(postId, commentId, dbOk, cacheOk)
  \/ \E commentId \in CommentIds, dbOk, cacheOk \in BOOLEAN :
        /\ served < MaxRequests
        /\ AtMostOne(<<~dbOk, ~cacheOk>>)
        /\ deleteComment(commentId, dbOk, cacheOk)
  \/ \E postId \in PostIds, dbOk, cacheOk \in BOOLEAN :
        /\ served < MaxRequests
        /\ AtMostOne(<<~dbOk, ~cacheOk>>)
        /\ registerView(postId, dbOk, cacheOk)
  \/ \E postId \in PostIds, dbOk, cacheOk \in BOOLEAN :
        /\ served < MaxRequests
        /\ AtMostOne(<<~dbOk, ~cacheOk>>)
        /\ likePostServed(postId, dbOk, cacheOk)

\* ------------------------------------------------- cache store with time
\* The node-cache instance myCache as get, set and del use it, with what the calls
\* above leave out: the clock, the expiry time of each entry, the copies taken of
\* the values and the sweep. Time is counted in seconds.

stdTTL == 300   \* new NodeCache({ stdTTL: 300, checkperiod: 60 })

StoreKeys == {ALL_BLOG_POSTS, POST_COMMENTS(1)}

\* a value is an object: its identity and its content
Payloads == {{}, {1}}
Objects == [ref : {"caller"}, val : Payloads]

\* useClones (the default): the store keeps and hands out copies
clone(obj, ref) == [ref |-> ref, val |-> obj.val]

\* ttl as set receives it; 0 stands for every falsy ttl (null, left out, 0)
TtlInputs == 0..MaxTtl

\* the clock advances by a second or by the default time to live
Steps == {1, stdTTL}

\* the entry { t, v } of a value stored at time t0: t is the time it lives to
wrap(value, ttl, t0) == [t |-> t0 + ttl, v |-> clone(value, "stored")]

\* an entry is live as long as its t is not before the clock
checkIgnoresClock(entry, t0) == TRUE
check(entry, t0) == ~(entry.t # 0 /\ entry.t < t0)

\* set(key, value, ttl): `if (ttl)` passes ttl on, else the instance applies stdTTL
timedSetKeepsFirst(d, key, value, ttl, t0) ==
  LET effective == IF ttl # 0 THEN ttl ELSE stdTTL
  IN  IF key \in DOMAIN d THEN d
      ELSE [k \in (DOMAIN d) \cup {key} |->
              IF k = key THEN wrap(value, effective, t0) ELSE d[k]]
timedSet(d, key, value, ttl, t0) ==
  LET effective == IF ttl # 0 THEN ttl ELSE stdTTL
  IN  [k \in (DOMAIN d) \cup {key} |-> IF k = key THEN wrap(value, effective, t0) ELSE d[k]]

\* get(key): a stored entry that is still live
timedHit(d, key, t0) == key \in DOMAIN d /\ check(d[key], t0)

\* get deletes the entry it finds expired (deleteOnExpire)
afterGet(d, key, t0) ==
  IF key \in DOMAIN d /\ ~check(d[key], t0) THEN del(d, key) ELSE d

\* the sweep, run every checkperiod seconds: every expired entry is deleted
checkData(d, t0) == [k \in {j \in DOMAIN d : check(d[j], t0)} |-> d[k]]

NoSet == [at |-> -1, ttl |-> 0, obj |-> [ref |-> "caller", val |-> {}], fresh |-> FALSE]
NoGet == [key |-> <<>>, at |-> -1, hit |-> FALSE, obj |-> [ref |-> "none", val |-> {}],
          setAt |-> -1, setTtl |-> 0, setObj |-> [ref |-> "caller", val |-> {}],
          direct |-> FALSE, swept |-> FALSE]

\* a call to the store counts; no earlier set is the call just before any more
StoreCall ==
  /\ storeOps < MaxStoreOps
  /\ storeOps' = storeOps + 1

Stale(st) == [k \in StoreKeys |-> [st[k] EXCEPT !.fresh = FALSE]]

\* cache.set(key, value, ttl)
storeSet(key, value, ttl) ==
  /\ StoreCall
  /\ data' = timedSet(data, key, value, ttl, now)
  /\ stored' = [Stale(stored) EXCEPT ![key] =
        [at |-> now, ttl |-> IF ttl # 0 THEN ttl ELSE stdTTL, obj |-> value,
         fresh |-> TRUE]]
  /\ UNCHANGED <<now, got, ticks>>
  /\ UNCHANGED otherThanStore

\* cache.get(key); swept: the entry of the last set was gone before the call
storeGet(key) ==
  /\ StoreCall
  /\ got' = [key |-> key, at |-> now, hit |-> timedHit(data, key, now),
             obj |-> IF timedHit(data, key, now)
                       THEN clone(data[key].v, "returned")
                       ELSE [ref |-> "none", val |-> {}],
             setAt |-> stored[key].at, setTtl |-> stored[key].ttl,
             setObj |-> stored[key].obj, direct |-> stored[key].fresh,
             swept |-> stored[key].at >= 0 /\ key \notin DOMAIN data]
  /\ data' = afterGet(data, key, now)
  /\ stored' = Stale(stored)
  /\ UNCHANGED <<now, ticks>>
  /\ UNCHANGED otherThanStore

\* cache.del(key)
storeDel(key) ==
  /\ StoreCall
  /\ data' = del(data, key)
  /\ stored' = [Stale(stored) EXCEPT ![key] = NoSet]
  /\ UNCHANGED <<now, got, ticks>>
  /\ UNCHANGED otherThanStore

\* the timer of the instance fires
sweep ==
  /\ data' = checkData(data, now)
  /\ data' # data
  /\ UNCHANGED <<now, got, stored, ticks, storeOps>>
  /\ UNCHANGED otherThanStore

\* time passes
advance(d) ==
  /\ ticks < MaxTicks
  /\ ticks' = ticks + 1
  /\ now' = now + d
  /\ UNCHANGED <<data, got, stored, storeOps>>
  /\ UNCHANGED otherThanStore

InitStore ==
  /\ now = 0
  /\ data = <<>>
  /\ got = NoGet
  /\ stored = [k \in StoreKeys |-> NoSet]
  /\ ticks = 0
  /\ storeOps = 0

NextStore ==
  \/ \E key \in StoreKeys, value \in Objects, ttl \in TtlInputs : storeSet(key, value, ttl)
  \/ \E key \in StoreKeys : storeGet(key)
  \/ \E key \in StoreKeys : storeDel(key)
  \/ sweep
  \/ \E d \in Steps : advance(d)

\* ------------------------------------------------------- the list request
\* getBlogPosts from req.query to the arguments and the result of getPaginated.

\* page and limit arrive as text, kept as its characters, or not at all
AbsentParam == [given |-> FALSE, text |-> <<>>]
Text(chars) == [given |-> TRUE, text |-> chars]

\* the text a client sends for the number n
RECURSIVE ToChars(_)
ToChars(n) == IF n < 0 THEN <<"-">> \o ToChars(-n)
              ELSE IF n < 10 THEN <<Digit[n + 1]>>
              ELSE ToChars(n \div 10) \o <<Digit[(n % 10) + 1]>>

IsDigit(ch) == \E i \in 1..10 : Digit[i] = ch
DigitValue(ch) == (CHOOSE i \in 1..10 : Digit[i] = ch) - 1

RECURSIVE LeadingDigits(_)
LeadingDigits(chars) ==
  IF chars = <<>> \/ ~IsDigit(Head(chars)) THEN <<>>
  ELSE <<Head(chars)>> \o LeadingDigits(Tail(chars))

RECURSIVE DigitsValue(_)
DigitsValue(ds) ==
  IF ds = <<>> THEN 0
  ELSE 10 * DigitsValue(SubSeq(ds, 1, Len(ds) - 1)) + DigitValue(ds[Len(ds)])

NaN == [nan |-> TRUE, n |-> 0]

\* parseInt: an optional sign and the digits the text begins with; NaN when there
\* is no digit there, and for undefined
parseInt(param) ==
  IF ~param.given THEN NaN
  ELSE LET signed == param.text # <<>> /\ Head(param.text) \in {"-", "+"}
           ds == LeadingDigits(IF signed THEN Tail(param.text) ELSE param.text)
       IN  IF ds = <<>> THEN NaN
           ELSE [nan |-> FALSE,
                 n |-> IF signed /\ Head(param.text) = "-"
                         THEN 0 - DigitsValue(ds) ELSE DigitsValue(ds)]

\* parsed || dflt: NaN and 0 are falsy
orElse(parsed, dflt) == IF parsed.nan \/ parsed.n = 0 THEN dflt ELSE parsed.n

pageNumOf(q) == orElse(parseInt(q.page), DefaultPage)
limitNumOf(q) == orElse(parseInt(q.limit), DefaultLimit)

\* const skip = (pageNum - 1) * limitNum
skipFromPageTimesLimit(pageNum, limitNum) == pageNum * limitNum
skipOf(pageNum, limitNum) == (pageNum - 1) * limitNum

\* sort arrives as text `field:direction`, kept as its parts between the colons
AbsentSort == [given |-> FALSE, parts |-> <<>>]
SortText(parts) == [given |-> TRUE, parts |-> parts]

RECURSIVE Join(_)
Join(parts) == IF Len(parts) = 1 THEN parts[1]
               ELSE parts[1] \o ":" \o Join(Tail(parts))

\* the text of sort, as the template literal of the key and `if (sort)` see it
renderSort(sort) == IF sort.given THEN Join(sort.parts) ELSE Undefined

\* the key getBlogPosts reads and writes
listCacheKey(q) ==
  BLOG_POSTS_LIST_5(q.search, q.filter, renderSort(q.sort),
                    ToStr(pageNumOf(q)), ToStr(limitNumOf(q)))

validSortFields == {"createdAt", "title", "author"}
validSortDirections == {"asc", "desc"}

\* `if (x)` on a query parameter: undefined and "" are falsy
Truthy(text) == text # Undefined /\ text # ""

\* the orderBy clause of getPaginated
orderByFallsBackAscending(sort) ==
  IF Truthy(renderSort(sort))
    THEN LET field == sort.parts[1]
             direction == IF Len(sort.parts) >= 2 THEN sort.parts[2] ELSE Undefined
         IN  IF field \in validSortFields /\ direction \in validSortDirections
               THEN [field |-> IF field = "author" THEN "author.firstName" ELSE field,
                     dir |-> direction]
               ELSE [field |-> "createdAt", dir |-> "asc"]
    ELSE [field |-> "createdAt", dir |-> "desc"]
orderByOf(sort) ==
  IF Truthy(renderSort(sort))
    THEN LET field == sort.parts[1]
             direction == IF Len(sort.parts) >= 2 THEN sort.parts[2] ELSE Undefined
         IN  IF field \in validSortFields /\ direction \in validSortDirections
               THEN [field |-> IF field = "author" THEN "author.firstName" ELSE field,
                     dir |-> direction]
               ELSE [field |-> "createdAt", dir |-> "desc"]
    ELSE [field |-> "createdAt", dir |-> "desc"]

\* The row with a given id. The columns that order rows are numbers (a time, a
\* rank in the collation); rows 1 and 2, 3 and 4, ... share their createdAt.
\* words: the words of title and content, in lower case.
RowOf(id) == [id |-> id,
              published |-> id % 2 = 1,
              createdAt |-> (id + 1) \div 2,
              title |-> id % 3,
              firstName |-> id % 2,
              words |-> IF id % 3 = 0 THEN {"hello"} ELSE {"world"}]

\* mode: "insensitive"
Lower(text) == IF text = "Hello" THEN "hello" ELSE text

\* the where clause of getPaginated; contains is taken word by word
where(row, search, filter) ==
  /\ Truthy(search) => Lower(search) \in row.words
  /\ (Truthy(filter) /\ filter # "all") => row.published = (filter = "published")

SortKey(row, field) ==
  CASE field = "createdAt" -> row.createdAt
    [] field = "title" -> row.title
    [] OTHER -> row.firstName

\* the orders findMany may return the rows in: the store orders by the clause
\* and is free among the rows the clause does not tell apart
Orderings(ids, orderBy) ==
  {s \in [1..Cardinality(ids) -> ids] :
     /\ \A i, j \in DOMAIN s : i # j => s[i] # s[j]
     /\ \A i, j \in DOMAIN s : i < j =>
          IF orderBy.dir = "asc"
            THEN SortKey(RowOf(s[i]), orderBy.field) <= SortKey(RowOf(s[j]), orderBy.field)
            ELSE SortKey(RowOf(s[i]), orderBy.field) >= SortKey(RowOf(s[j]), orderBy.field)}

Min(a, b) == IF a <= b THEN a ELSE b
Max(a, b) == IF a >= b THEN a ELSE b

\* skip and take of findMany; a negative take counts from the end
page(ordered, skip, take) ==
  IF take >= 0
    THEN SubSeq(ordered, skip + 1, Min(Len(ordered), skip + take))
    ELSE SubSeq(ordered, Max(1, Len(ordered) - skip + take + 1), Len(ordered) - skip)

NoAnswer == [q |-> [search |-> Undefined, filter |-> Undefined, sort |-> AbsentSort,
                    page |-> AbsentParam, limit |-> AbsentParam],
             status |-> 0, pageNum |-> 0, limitNum |-> 0, skip |-> 0,
             orderBy |-> [field |-> "none", dir |-> "none"],
             ordered |-> <<>>, items |-> <<>>, total |-> 0]

\* What getBlogPosts computes for a request on a cold cache: the parsing, then
\* getPaginated. findMany rejects a negative skip; the catch block answers 500.
\* The set holds one answer for each order findMany may return the rows in.
listResponses(q) ==
  LET pageNum == pageNumOf(q)
      limitNum == limitNumOf(q)
      skip == skipOf(pageNum, limitNum)
      orderBy == orderByOf(q.sort)
      matching == {id \in table : where(RowOf(id), q.search, q.filter)}
  IN  IF skip < 0
        THEN {[NoAnswer EXCEPT !.q = q, !.status = 500, !.pageNum = pageNum,
                               !.limitNum = limitNum, !.skip = skip,
                               !.orderBy = orderBy]}
        ELSE {[q |-> q, status |-> 200, pageNum |-> pageNum,
               limitNum |-> limitNum, skip |-> skip, orderBy |-> orderBy,
               ordered |-> ordered, items |-> page(ordered, skip, limitNum),
               total |-> Cardinality(matching)] :
                 ordered \in Orderings(matching, orderBy)}

\* GET /api/admin/posts on a cold cache
getBlogPostsCold(q) ==
  /\ answer.status = 0
  /\ answer' \in listResponses(q)
  /\ UNCHANGED <<table, repeat, keyNow, keyPrev>>
  /\ UNCHANGED otherThanList

\* the same request once more, the cache cold again (the entry expired or was
\* purged): getPaginated runs a second time over the same table
getBlogPostsColdAgain ==
  /\ answer.status = 200
  /\ repeat.status = 0
  /\ repeat' \in listResponses(answer.q)
  /\ UNCHANGED <<table, answer, keyNow, keyPrev>>
  /\ UNCHANGED otherThanList

NumberInputs(max) ==
  {AbsentParam, Text(<<"x">>)} \cup {Text(ToChars(n)) : n \in (0 - 1)..max}

SortInputs ==
  {AbsentSort} \cup
  {SortText(parts) : parts \in {<<"createdAt", "desc">>, <<"createdAt", "asc">>,
                                <<"title", "asc">>, <<"author", "desc">>,
                                <<"bogus", "asc">>, <<"title">>, <<"title", "up">>,
                                <<"">>}}

ListQueries ==
  [search : {Undefined, "Hello"},
   filter : {Undefined, "all", "published", "unpublished"},
   sort : SortInputs,
   page : NumberInputs(MaxPage),
   limit : NumberInputs(MaxLimit)]

NextList == \E q \in ListQueries : getBlogPostsCold(q)

NextRepeat ==
  \/ \E q \in ListQueries : getBlogPostsCold(q)
  \/ getBlogPostsColdAgain

NoKey == [q |-> NoAnswer.q, key |-> <<>>]

\* the key of one more list request is built
buildListKey(q) ==
  /\ keyPrev = NoKey
  /\ keyPrev' = keyNow
  /\ keyNow' = [q |-> q, key |-> listCacheKey(q)]
  /\ UNCHANGED <<table, answer, repeat>>
  /\ UNCHANGED otherThanList

KeyQueries ==
  [search : {Undefined, "all", "Hello"},
   filter : {Undefined, "all", "published"},
   sort : {AbsentSort, SortText(<<"title", "asc">>)},
   page : {AbsentParam, Text(ToChars(DefaultPage)), Text(ToChars(DefaultPage + 1))},
   limit : {AbsentParam, Text(ToChars(DefaultLimit)), Text(ToChars(DefaultLimit \div 2))}]

NextKeys == \E q \in KeyQueries : buildListKey(q)

\* no list request made; the table is empty
InitList ==
  /\ table = {}
  /\ answer = NoAnswer
  /\ repeat = NoAnswer
  /\ keyNow = NoKey
  /\ keyPrev = NoKey

\* a list request may meet any table
InitListOverTables ==
  /\ table \in SUBSET (1..MaxRows)
  /\ answer = NoAnswer
  /\ repeat = NoAnswer
  /\ keyNow = NoKey
  /\ keyPrev = NoKey

\* ------------------------------------------------------ the comment thread
\* The comment handlers with the content of the comments: createComment,
\* updateComment, deleteComment and the cached read getCommentsForPost. The posts
\* of PostIds exist throughout.

\* white space as String.prototype.trim removes it
WhiteSpace == {" ", "\t", "\n"}

RECURSIVE trimStart(_)
trimStart(chars) ==
  IF chars # <<>> /\ Head(chars) \in WhiteSpace THEN trimStart(Tail(chars)) ELSE chars

RECURSIVE trimEnd(_)
trimEnd(chars) ==
  IF chars # <<>> /\ chars[Len(chars)] \in WhiteSpace
    THEN trimEnd(SubSeq(chars, 1, Len(chars) - 1))
    ELSE chars

\* content.trim()
trimKeepsAll(chars) == chars
trim(chars) == trimEnd(trimStart(chars))

\* `!x` on a text: undefined and "" are falsy
Falsy(param) == ~param.given \/ param.text = <<>>

\* createComment: if (!content || !content.trim())
contentRejected(content) == Falsy(content) \/ Falsy(Text(trim(content.text)))

NoComment == [post |-> 0, content |-> AbsentParam]

\* req.body.content as a client may send it
ContentInputs == {AbsentParam, Text(<<>>), Text(<<" ", " ">>),
                  Text(<<" ", "h", "i", " ">>)}

\* the error query.comment.delete throws for P2025 carries the text
\* "Comment with ID ... not found."; any other error is rethrown as it is
CommentWithId == "Comment with ID"
OtherError == "other"

\* the catch block of deleteComment: err.message.includes("Comment with ID")
statusOfDeleteErrorGeneric(message) == 500
statusOfDeleteError(message) == IF message = CommentWithId THEN 404 ELSE 500

NoCommentRequest == [op |-> "none", status |-> 0, postId |-> 0, commentId |-> 0,
                     content |-> AbsentParam, storeOk |-> TRUE]

\* a comment request is answered
CommentServed(op, status, postId, commentId, content, storeOk) ==
  /\ threadOps < MaxThreadOps
  /\ threadOps' = threadOps + 1
  /\ commentReq' = [op |-> op, status |-> status, postId |-> postId,
                    commentId |-> commentId, content |-> content, storeOk |-> storeOk]

\* the comments of a post as getByPostId returns them: id and content
commentsOf(rows, postId) ==
  {[id |-> c, content |-> rows[c].content] : c \in {d \in CommentIds : rows[d].post = postId}}

\* GET /api/posts/:postId/comments
getCommentsCached(postId) ==
  /\ IF isHit(commentCache, POST_COMMENTS(postId))
       THEN UNCHANGED commentCache
       ELSE commentCache' = set(commentCache, POST_COMMENTS(postId),
                                commentsOf(commentRows, postId))
  /\ CommentServed("getCommentsForPost", 200, postId, 0, AbsentParam, TRUE)
  /\ UNCHANGED <<commentRows, nextCommentId>>
  /\ UNCHANGED otherThanComments

\* the three cache.del calls of createComment and updateComment
purgeForComment(c, postId) ==
  del(del(del(c, POST_COMMENTS(postId)), ALL_BLOG_POSTS), BLOG_POST_DETAIL(postId))

\* POST /api/posts/:postId/comments; storeOk: query.comment.create resolves
createCommentWith(postId, content, storeOk) ==
  /\ nextCommentId <= MaxComments
  /\ IF contentRejected(content)
       THEN /\ CommentServed("createComment", 400, postId, 0, content, storeOk)
            /\ UNCHANGED <<commentRows, nextCommentId, commentCache>>
       ELSE IF ~storeOk
         THEN /\ CommentServed("createComment", 500, postId, 0, content, storeOk)
              /\ UNCHANGED <<commentRows, nextCommentId, commentCache>>
         ELSE /\ commentRows' = [commentRows EXCEPT ![nextCommentId] =
                                   [post |-> postId, content |-> content]]
              /\ nextCommentId' = nextCommentId + 1
              /\ commentCache' = purgeForComment(commentCache, postId)
              /\ CommentServed("createComment", 201, postId, nextCommentId, content, storeOk)
  /\ UNCHANGED otherThanComments

\* PATCH /api/:postId/comments/:commentId with body { content }: the handler
\* passes req.body to query.comment.update without looking at it. prisma leaves a
\* column alone whose new value is undefined. P2025 for a missing row: 500.
updateCommentWith(postId, commentId, content, storeOk) ==
  /\ IF ~storeOk \/ commentRows[commentId].post = 0
       THEN /\ CommentServed("updateComment", 500, postId, commentId, content, storeOk)
            /\ UNCHANGED <<commentRows, commentCache>>
       ELSE /\ commentRows' = IF content.given
                                THEN [commentRows EXCEPT ![commentId].content = content]
                                ELSE commentRows
            /\ commentCache' = purgeForComment(commentCache, postId)
            /\ CommentServed("updateComment", 200, postId, commentId, content, storeOk)
  /\ UNCHANGED nextCommentId
  /\ UNCHANGED otherThanComments

\* DELETE /api/comments/:commentId
deleteCommentById(commentId, storeOk) ==
  /\ IF ~storeOk
       THEN /\ CommentServed("deleteComment", statusOfDeleteError(OtherError), 0,
                             commentId, AbsentParam, storeOk)
            /\ UNCHANGED <<commentRows, commentCache>>
       ELSE IF commentRows[commentId].post = 0
         THEN \* P2025
              /\ CommentServed("deleteComment", statusOfDeleteError(CommentWithId), 0,
                               commentId, AbsentParam, storeOk)
              /\ UNCHANGED <<commentRows, commentCache>>
         ELSE /\ commentRows' = [commentRows EXCEPT ![commentId] = NoComment]
              /\ commentCache' = del(del(commentCache,
                                         POST_COMMENTS(commentRows[commentId].post)),
                                     BLOG_POST_DETAIL(commentRows[commentId].post))
              /\ CommentServed("deleteComment", 200, commentRows[commentId].post,
                               commentId, AbsentParam, storeOk)
  /\ UNCHANGED nextCommentId
  /\ UNCHANGED otherThanComments

InitComments ==
  /\ commentRows = [c \in CommentIds |-> NoComment]
  /\ nextCommentId = 1
  /\ commentCache = <<>>
  /\ commentReq = NoCommentRequest
  /\ threadOps = 0

NextComments ==
  \/ \E postId \in PostIds : getCommentsCached(postId)
  \/ \E postId \in PostIds, content \in ContentInputs, storeOk \in BOOLEAN :
        createCommentWith(postId, content, storeOk)
  \/ \E postId \in PostIds, commentId \in CommentIds, content \in ContentInputs,
        storeOk \in BOOLEAN :
        updateCommentWith(postId, commentId, content, storeOk)
  \/ \E commentId \in CommentIds, storeOk \in BOOLEAN : deleteCommentById(commentId, storeOk)

\* ---------------------------------------------------------- view counter
\* registerView on one existing post, a step per await point, so that concurrent
\* requests interleave. The cache.del of the handler touches no row and is part
\* of the answering step.

\* the columns of the post a view request could reach
CreatedPost == [title |-> "t", content |-> "c", published |-> TRUE, tags |-> <<>>,
                views |-> 0, likes |-> 0, createdAt |-> 0, updatedAt |-> 0]

\* prisma.post.update({ data: { views: { increment: 1 } } }) at time t0: one
\* UPDATE ... SET views = views + 1; updatedAt is @updatedAt, set on every update
incrementViewsOf(row, t0) == [row EXCEPT !.views = @ + 1, !.updatedAt = t0]

\* POST /api/posts/:postId/view arrives
registerViewArrives(p) ==
  /\ viewPc[p] = "idle"
  /\ viewCalls < MaxViewCalls
  /\ viewCalls' = viewCalls + 1
  /\ viewPc' = [viewPc EXCEPT ![p] = "increment"]
  /\ UNCHANGED <<postRow, viewClock, viewsOk, viewTicks>>
  /\ UNCHANGED otherThanViews

\* await query.post.incrementViews(postId); storeOk = FALSE: the call rejects and
\* the catch block answers 500
incrementViews(p, storeOk) ==
  /\ viewPc[p] = "increment"
  /\ IF storeOk
       THEN /\ postRow' = incrementViewsOf(postRow, viewClock)
            /\ viewPc' = [viewPc EXCEPT ![p] = "respond"]
       ELSE /\ viewPc' = [viewPc EXCEPT ![p] = "idle"]
            /\ UNCHANGED postRow
  /\ UNCHANGED <<viewClock, viewsOk, viewCalls, viewTicks>>
  /\ UNCHANGED otherThanViews

\* cache.del(BLOG_POST_DETAIL(postId)) and res.status(200)
registerViewAnswers(p) ==
  /\ viewPc[p] = "respond"
  /\ viewPc' = [viewPc EXCEPT ![p] = "idle"]
  /\ viewsOk' = viewsOk + 1
  /\ UNCHANGED <<postRow, viewClock, viewCalls, viewTicks>>
  /\ UNCHANGED otherThanViews

\* time passes on the database server
viewClockAdvances ==
  /\ viewTicks < MaxTicks
  /\ viewTicks' = viewTicks + 1
  /\ viewClock' = viewClock + 1
  /\ UNCHANGED <<postRow, viewPc, viewsOk, viewCalls>>
  /\ UNCHANGED otherThanViews

InitViews ==
  /\ postRow = CreatedPost
  /\ viewPc = [p \in Procs |-> "idle"]
  /\ viewClock = 0
  /\ viewsOk = 0
  /\ viewCalls = 0
  /\ viewTicks = 0

NextViews ==
  \/ \E p \in Procs : registerViewArrives(p)
  \/ \E p \in Procs, storeOk \in BOOLEAN : incrementViews(p, storeOk)
  \/ \E p \in Procs : registerViewAnswers(p)
  \/ viewClockAdvances

\* ---------------------------------------------------- overlapping requests
\* A cached read and a mutating request in flight together, a step per await
\* point: what runs between two awaits runs without interruption. They work on
\* the tables and the cache of the cache model. The mutating requests are those
\* that pass the handler's validation.

NoRead == [op |-> "none", post |-> 0]

\* the read requests: the all-posts read and the comments of a post
ReadRequests ==
  {[op |-> "getAllBlogPosts", post |-> 0]} \cup
  {[op |-> "getCommentsForPost", post |-> postId] : postId \in PostIds}

readKeyOf(req) ==
  IF req.op = "getAllBlogPosts" THEN ALL_BLOG_POSTS ELSE POST_COMMENTS(req.post)

\* what the awaited query of a read returns
readFetchOf(req) ==
  IF req.op = "getAllBlogPosts" THEN getAll ELSE getByPostId(req.post)

NoMutation == [op |-> "none", post |-> 0, ids |-> {}, comment |-> 0, publish |-> FALSE]

MutationRequests ==
  {[NoMutation EXCEPT !.op = "createBlogPost", !.publish = b] : b \in BOOLEAN} \cup
  {[NoMutation EXCEPT !.op = "updateBlogPost", !.post = postId, !.publish = b] :
     postId \in PostIds, b \in BOOLEAN} \cup
  {[NoMutation EXCEPT !.op = op, !.post = postId] :
     op \in {"deleteBlogPost", "createComment", "registerView", "likePost"},
     postId \in PostIds} \cup
  {[NoMutation EXCEPT !.op = "deleteAllBlogPosts", !.ids = postIds] :
     postIds \in (SUBSET PostIds) \ {{}}} \cup
  {[NoMutation EXCEPT !.op = "updateComment", !.post = postId, !.comment = commentId] :
     postId \in PostIds, commentId \in CommentIds} \cup
  {[NoMutation EXCEPT !.op = "deleteComment", !.comment = commentId] :
     commentId \in CommentIds}

NoneDone == [role |-> "none", op |-> "none", status |-> 0, purged |-> {}]

\* a request starts
RaceCall ==
  /\ raceCalls < MaxRaceCalls
  /\ raceCalls' = raceCalls + 1

\* a read arrives: cache.get, and on a hit the answer, with no await in between
readArrives(req) ==
  /\ readPc = "idle"
  /\ RaceCall
  /\ IF isHit(cache, readKeyOf(req))
       THEN /\ raceDone' = [role |-> "read", op |-> req.op, status |-> 200, purged |-> {}]
            /\ UNCHANGED <<readPc, readReq>>
       ELSE /\ readPc' = "fetch"
            /\ readReq' = req
            /\ UNCHANGED raceDone
  /\ UNCHANGED <<readLocal, writePc, writeReq, written>>
  /\ UNCHANGED <<posts, published, nextPost, comments, nextComment, cache>>
  /\ UNCHANGED otherThanRace

\* the awaited query of the read resolves, or rejects (the catch block answers)
readFetches(dbOk) ==
  /\ readPc = "fetch"
  /\ IF dbOk
       THEN /\ readLocal' = readFetchOf(readReq)
            /\ readPc' = "set"
            /\ UNCHANGED <<readReq, raceDone>>
       ELSE /\ readPc' = "idle"
            /\ readReq' = NoRead
            /\ raceDone' = [role |-> "read", op |-> readReq.op, status |-> 500,
                            purged |-> {}]
            /\ UNCHANGED readLocal
  /\ UNCHANGED <<writePc, writeReq, written, raceCalls>>
  /\ UNCHANGED <<posts, published, nextPost, comments, nextComment, cache>>
  /\ UNCHANGED otherThanRace

\* the read goes on after its await: cache.set of what it readLocal, then the answer
readSets ==
  /\ readPc = "set"
  /\ cache' = set(cache, readKeyOf(readReq), readLocal)
  /\ readPc' = "idle"
  /\ readLocal' = {}
  /\ readReq' = NoRead
  /\ raceDone' = [role |-> "read", op |-> readReq.op, status |-> 200, purged |-> {}]
  /\ UNCHANGED <<writePc, writeReq, written, raceCalls>>
  /\ UNCHANGED <<posts, published, nextPost, comments, nextComment>>
  /\ UNCHANGED otherThanRace

\* a mutating request arrives and awaits its query call
mutationArrives(req) ==
  /\ writePc = "idle"
  /\ req.op = "createBlogPost" => nextPost <= MaxPosts
  /\ req.op = "createComment" => nextComment <= MaxComments
  /\ RaceCall
  /\ writePc' = "write"
  /\ writeReq' = req
  /\ UNCHANGED <<readPc, readReq, readLocal, written, raceDone>>
  /\ UNCHANGED <<posts, published, nextPost, comments, nextComment, cache>>
  /\ UNCHANGED otherThanRace

\* the row the write of a request needs is there
writeFinds(req) ==
  CASE req.op \in {"updateBlogPost", "deleteBlogPost", "createComment",
                   "registerView", "likePost"} -> req.post \in posts
    [] req.op \in {"updateComment", "deleteComment"} -> comments[req.comment] # 0
    [] OTHER -> TRUE

\* the statuses the catch block may give a write that found no row
statusOfMissing(req) ==
  CASE req.op \in {"updateBlogPost", "deleteBlogPost", "deleteComment"} -> {404}
    [] req.op \in {"registerView", "likePost"} -> NotFoundOrError
    [] OTHER -> {500}

\* the post whose keys the purge of a request names
purgedPostOf(req) ==
  CASE req.op = "createBlogPost" -> nextPost
    [] req.op = "deleteComment" -> comments[req.comment]
    [] req.op = "deleteAllBlogPosts" -> 0
    [] OTHER -> req.post

\* the cache calls each mutating handler makes after its write
purgeOf(op, c, postId) ==
  CASE op = "createBlogPost" -> invalidateOnCreate(c)
    [] op \in {"updateBlogPost", "deleteBlogPost"} -> invalidateAllBlogCaches(c, postId)
    [] op = "deleteAllBlogPosts" -> invalidateAllBlogCaches(c, 0)
    [] op \in {"createComment", "updateComment"} -> purgeForComment(c, postId)
    [] op = "deleteComment" -> del(del(c, POST_COMMENTS(postId)), BLOG_POST_DETAIL(postId))
    [] OTHER -> invalidateOnEngagement(c, postId)

\* the catch block of a mutating handler makes no cache call
catchPurges(op, c, postId) == purgeOf(op, c, postId)
catchLeavesCache(op, c, postId) == c

\* the awaited write resolves, or rejects: then the catch block answers
mutationWrites(dbOk) ==
  /\ writePc = "write"
  /\ IF dbOk /\ writeFinds(writeReq)
       THEN /\ posts' = CASE writeReq.op = "createBlogPost" -> posts \cup {nextPost}
                           [] writeReq.op = "deleteBlogPost" -> posts \ {writeReq.post}
                           [] writeReq.op = "deleteAllBlogPosts" -> posts \ writeReq.ids
                           [] OTHER -> posts
            /\ published' =
                 CASE writeReq.op = "createBlogPost" ->
                        IF writeReq.publish THEN published \cup {nextPost} ELSE published
                   [] writeReq.op = "updateBlogPost" ->
                        IF writeReq.publish THEN published \cup {writeReq.post}
                        ELSE published \ {writeReq.post}
                   [] writeReq.op = "deleteBlogPost" -> published \ {writeReq.post}
                   [] writeReq.op = "deleteAllBlogPosts" -> published \ writeReq.ids
                   [] OTHER -> published
            /\ nextPost' = IF writeReq.op = "createBlogPost" THEN nextPost + 1 ELSE nextPost
            /\ comments' =
                 CASE writeReq.op = "deleteBlogPost" -> cascade(comments, {writeReq.post})
                   [] writeReq.op = "deleteAllBlogPosts" -> cascade(comments, writeReq.ids)
                   [] writeReq.op = "createComment" ->
                        [comments EXCEPT ![nextComment] = writeReq.post]
                   [] writeReq.op = "deleteComment" ->
                        [comments EXCEPT ![writeReq.comment] = 0]
                   [] OTHER -> comments
            /\ nextComment' = IF writeReq.op = "createComment"
                                THEN nextComment + 1 ELSE nextComment
            /\ written' = purgedPostOf(writeReq)
            /\ writePc' = "purge"
            /\ UNCHANGED <<cache, writeReq, raceDone>>
       ELSE /\ cache' = catchLeavesCache(writeReq.op, cache, purgedPostOf(writeReq))
            /\ writePc' = "idle"
            /\ writeReq' = NoMutation
            /\ \E missing \in statusOfMissing(writeReq) :
                 raceDone' = [role |-> "mutate", op |-> writeReq.op,
                              status |-> IF dbOk THEN missing ELSE 500,
                              purged |-> {}]
            /\ UNCHANGED <<posts, published, nextPost, comments, nextComment, written>>
  /\ UNCHANGED <<readPc, readReq, readLocal, raceCalls>>
  /\ UNCHANGED otherThanRace

\* the mutating handler goes on after its await: the cache calls, then the answer
mutationPurges ==
  /\ writePc = "purge"
  /\ cache' = purgeOf(writeReq.op, cache, written)
  /\ writePc' = "idle"
  /\ writeReq' = NoMutation
  /\ written' = 0
  /\ raceDone' = [role |-> "mutate", op |-> writeReq.op,
                  status |-> IF writeReq.op \in {"createBlogPost", "createComment"}
                               THEN 201 ELSE 200,
                  purged |-> (DOMAIN cache) \ DOMAIN purgeOf(writeReq.op, cache, written)]
  /\ UNCHANGED <<readPc, readReq, readLocal, raceCalls>>
  /\ UNCHANGED <<posts, published, nextPost, comments, nextComment>>
  /\ UNCHANGED otherThanRace

InitRace ==
  /\ readPc = "idle"
  /\ readReq = NoRead
  /\ readLocal = {}
  /\ writePc = "idle"
  /\ writeReq = NoMutation
  /\ written = 0
  /\ raceDone = NoneDone
  /\ raceCalls = 0

NextRace ==
  \/ \E req \in ReadRequests : readArrives(req)
  \/ \E dbOk \in BOOLEAN : readFetches(dbOk)
  \/ readSets
  \/ \E req \in MutationRequests : mutationArrives(req)
  \/ \E dbOk \in BOOLEAN : mutationWrites(dbOk)
  \/ mutationPurges

\* ------------------------------------------------- the cached list request
\* getBlogPosts with its cache, for several requests over one table; no entry
\* expires and nothing is purged in between.

\* Math.ceil(a / b) for b > 0
ceilDiv(a, b) == (a + b - 1) \div b

\* the result object getBlogPosts builds from what getPaginated returned
resultOf(r) == [posts |-> r.items, totalPosts |-> r.total, page |-> r.pageNum,
                limit |-> r.limitNum, totalPages |-> ceilDiv(r.total, r.limitNum)]

NoResultObject == [posts |-> <<>>, totalPosts |-> 0, page |-> 0, limit |-> 0,
                   totalPages |-> 0]

NoReply == [q |-> NoAnswer.q, status |-> 0, hit |-> FALSE, result |-> NoResultObject]

\* controller.getBlogPosts
getBlogPostsCached(q) ==
  /\ listCalls < MaxListCalls
  /\ listCalls' = listCalls + 1
  /\ IF isHit(listCache, listCacheKey(q))
       THEN /\ reply' = [q |-> q, status |-> 200, hit |-> TRUE,
                         result |-> get(listCache, listCacheKey(q))]
            /\ UNCHANGED listCache
       ELSE \E r \in listResponses(q) :
              IF r.status = 200
                THEN /\ listCache' = set(listCache, listCacheKey(q), resultOf(r))
                     /\ reply' = [q |-> q, status |-> 200, hit |-> FALSE,
                                  result |-> resultOf(r)]
                ELSE /\ reply' = [q |-> q, status |-> 500, hit |-> FALSE,
                                  result |-> NoResultObject]
                     /\ UNCHANGED listCache
  /\ UNCHANGED listVars
  /\ UNCHANGED otherThanCachedList

\* requests with a page and a limit the query accepts
CachedQueries ==
  [search : {Undefined, "Hello"},
   filter : {Undefined, "published"},
   sort : {AbsentSort, SortText(<<"title", "asc">>)},
   page : {AbsentParam, Text(ToChars(DefaultPage + 1))},
   limit : {Text(ToChars(n)) : n \in 1..MaxLimit}]

InitCachedList ==
  /\ listCache = <<>>
  /\ reply = NoReply
  /\ listCalls = 0

NextCachedList == \E q \in CachedQueries : getBlogPostsCached(q)

Init ==
  /\ InitLike /\ InitCache /\ InitStore /\ InitList /\ InitComments /\ InitViews
  /\ InitRace /\ InitCachedList

Spec == Init /\ [][Next]_vars


SpecLike == Init /\ [][NextLike]_vars

SpecLikeFaults == Init /\ [][NextLikeFaults]_vars

SpecStore == Init /\ [][NextStore]_vars

SpecKeys == Init /\ [][NextKeys]_vars

\* a list request over any table of posts
InitOverTables ==
  /\ InitLike /\ InitCache /\ InitStore /\ InitListOverTables /\ InitComments /\ InitViews
  /\ InitRace /\ InitCachedList

SpecList == InitOverTables /\ [][NextList]_vars

SpecRepeat == InitOverTables /\ [][NextRepeat]_vars

SpecComments == Init /\ [][NextComments]_vars

SpecViews == Init /\ [][NextViews]_vars

SpecRace == Init /\ [][NextRace]_vars

SpecCachedList == InitOverTables /\ [][NextCachedList]_vars

\* ================================================================ claims

RECURSIVE SumOk(_)
SumOk(us) == IF us = {} THEN 0
             ELSE LET u == CHOOSE x \in us : TRUE IN nOk[u] + SumOk(us \ {u})

Odd(n) == n % 2 = 1

Quiet == \A p \in Procs : pc[p] = "idle"

\* C1: whenever a like toggle is answered 200, Post.likes equals the number of
\* UserLikePost rows of the post at that moment, under any interleaving.
C1_LikesEqualRowsOnSuccess ==
  \A p \in Procs : result[p].status = 200 => result[p].likes = result[p].rows

\* C2: Post.likes is never negative, and no like toggle returns a negative likes.
C2_LikesNeverNegative ==
  /\ likes >= 0
  /\ \A p \in Procs : result[p].status = 200 => result[p].likes >= 0

\* C3: the request whose insert hits the (userId, postId) uniqueness constraint is
\* answered with success (liked, the winner's likes), not with an error, and the
\* pair counts once in Post.likes.
C3_RaceLoserAnsweredWithSuccess ==
  \A p \in Procs :
    result[p].conflict => /\ result[p].status = 200
                          /\ result[p].liked
                          /\ result[p].likes = result[p].rows

\* C4: when no two like requests overlapped, every request was answered 200, each
\* answer's liked says whether it was the user's odd-numbered toggle, and once the
\* requests are over a user's row exists exactly when the user toggled an odd
\* number of times, with Post.likes (0 at first) raised by 1 for each such user
\* and by 0 for every other.
C4_ToggleParity ==
  ~overlap =>
    /\ \A p \in Procs : result[p].status # 500
    /\ \A p \in Procs : result[p].status = 200 =>
         /\ result[p].liked = Odd(result[p].n)
         /\ result[p].likes >= 0
    /\ Quiet =>
         /\ SumOk(Users) = started
         /\ \A u \in Users : (likeRows[u] # 0) = Odd(nOk[u])
         /\ likes = Cardinality({u \in Users : Odd(nOk[u])})

\* three toggles by user 1 in a row, each finished before the next began
C4_Witness ==
  /\ ~overlap
  /\ Quiet
  /\ nOk[1] = 3
  /\ likeRows[1] # 0
  /\ likes = 1

KeysIn(ns) == {k \in keys(cache) : startsWith(k, ns)}

\* C6: after a successful createBlogPost the cache holds no blog_posts_list:* key
\* and no all_blog_posts key.
C6_CreatePurgesListsAndAll ==
  (last.op = "createBlogPost" /\ last.status = 201)
    => /\ KeysIn("blog_posts_list") = {}
       /\ ~isHit(cache, ALL_BLOG_POSTS)

\* C7: after a successful updateBlogPost(postId) the cache holds no
\* blog_posts_list:* key, no all_blog_posts key and no blog_post_detail:postId key.
C7_UpdatePurgesListsAllDetail ==
  (last.op = "updateBlogPost" /\ last.status = 200)
    => /\ KeysIn("blog_posts_list") = {}
       /\ ~isHit(cache, ALL_BLOG_POSTS)
       /\ ~isHit(cache, BLOG_POST_DETAIL(last.post))

\* C8: after a successful deleteBlogPost(postId) the cache holds no
\* blog_posts_list:* key, no all_blog_posts key, no blog_post_detail:postId key and
\* no post_comments:postId key.
C8_DeletePurgesListsAllDetailComments ==
  (last.op = "deleteBlogPost" /\ last.status = 200)
    => /\ KeysIn("blog_posts_list") = {}
       /\ ~isHit(cache, ALL_BLOG_POSTS)
       /\ ~isHit(cache, BLOG_POST_DETAIL(last.post))
       /\ ~isHit(cache, POST_COMMENTS(last.post))

\* C9: after a successful bulk delete the cache holds no all_blog_posts key and no
\* blog_post_detail or post_comments key of a deleted post, so that no later
\* comments read of a deleted post is answered from an entry cached before the
\* delete. (The blog_posts_list:* keys a bulk delete leaves behind are those of
\* C8; the formula states what the claim says beyond them.)
C9_BulkDeletePurgesDeletedPosts ==
  (last.op = "deleteAllBlogPosts" /\ last.status = 200)
    => /\ \A p \in last.ids : /\ ~isHit(cache, BLOG_POST_DETAIL(p))
                              /\ ~isHit(cache, POST_COMMENTS(p))
       /\ ~isHit(cache, ALL_BLOG_POSTS)

\* C10: after a successful create, update or delete of a comment the cache holds
\* neither post_comments:p nor blog_post_detail:p, p being the comment's own post.
C10_CommentMutationPurgesOwnPost ==
  (last.op \in {"createComment", "updateComment", "deleteComment"}
     /\ last.status \in {200, 201})
    => /\ ~isHit(cache, POST_COMMENTS(last.post))
       /\ ~isHit(cache, BLOG_POST_DETAIL(last.post))

\* C11: a successful registerView(postId) or likePost(postId) removes from the
\* cache the key blog_post_detail:postId and nothing else: every other entry
\* (blog_posts_list:*, all_blog_posts, post_comments:*, the detail keys of other
\* posts) is there afterwards with the value it had.
C11_EngagementPurgesOnlyDetail ==
  [][(/\ served' = served + 1
      /\ last'.op \in {"registerView", "likePost"}
      /\ last'.status = 200)
       => /\ DOMAIN cache' = (DOMAIN cache) \ {BLOG_POST_DETAIL(last'.post)}
          /\ \A k \in DOMAIN cache' : cache'[k] = cache[k]]_vars

\* a view was registered while an all-posts list and a paginated list were cached,
\* and both are still cached
C11_Witness ==
  /\ last.op = "registerView"
  /\ last.status = 200
  /\ last.hadAll
  /\ isHit(cache, ALL_BLOG_POSTS)
  /\ KeysIn("blog_posts_list") # {}

\* C12: a mutating request whose storage write was committed and whose cache
\* invalidation then threw is answered with success.
C12_InvalidationFailureSwallowed ==
  (last.wrote /\ last.fault = "del") => last.status \in {200, 201}

\* C13: a read request during which cache.get or cache.set threw is answered 200
\* (with the data fetched from the store), never with an error.
C13_CacheFailureServedAsMiss ==
  (last.fault \in {"get", "set"}) => last.status = 200

\* C14, as claimed: a get of key k at a time t + ttl or later, the last set of k
\* (not undone by a del) having been made at time t with time to live ttl, is a
\* miss, whether or not the sweep has run.
C14_MissFromExpiryTimeOn ==
  (got.setAt >= 0 /\ got.at >= got.setAt + got.setTtl) => ~got.hit

\* C14, amended: the same for a get at a time later than t + ttl.
C14_MissAfterExpiryTime ==
  (got.setAt >= 0 /\ got.at > got.setAt + got.setTtl) => ~got.hit

\* the entry was still stored when the get came, past its time: no sweep had run,
\* and the get answered a miss
C14_Witness ==
  /\ got.setAt >= 0
  /\ got.at > got.setAt + got.setTtl
  /\ ~got.swept
  /\ ~got.hit

\* C15: a get of key k that follows a set(k, v) directly, before the time to live
\* of the entry is over, is a hit and returns a value equal to v.
C15_SetThenGetReturnsValue ==
  (got.direct /\ got.at < got.setAt + got.setTtl)
    => /\ got.hit
       /\ got.obj.val = got.setObj.val

\* a non-empty value came back equal, as another object than the one passed to set
C15_Witness ==
  /\ got.direct
  /\ got.hit
  /\ got.obj.val = {1}
  /\ got.setObj.val = {1}
  /\ got.obj.ref # got.setObj.ref

\* the parameters of a list request with the missing ones replaced by their
\* defaults, as (search, statusFilter, sort, page, limit)
Normalized(q) ==
  <<Default(q.search, "all"), Default(q.filter, "all"), renderSort(q.sort),
    pageNumOf(q), limitNumOf(q)>>

\* C16: two list requests whose normalized parameters (search, statusFilter, sort,
\* page, limit) differ in some component get different cache keys.
C16_ListKeyCollisionFree ==
  (keyPrev # NoKey /\ Normalized(keyNow.q) # Normalized(keyPrev.q))
    => keyNow.key # keyPrev.key

\* a request with each missing parameter that has a documented default (search
\* "all", statusFilter "all", page 1, limit 10) given that default
WithDefaults(q) ==
  [q EXCEPT !.search = Default(@, "all"),
            !.filter = Default(@, "all"),
            !.page = IF @.given THEN @ ELSE Text(<<"1">>),
            !.limit = IF @.given THEN @ ELSE Text(<<"1", "0">>)]

\* C17: two list requests that differ only in that one leaves out a parameter
\* where the other passes its documented default get the same cache key.
C17_AbsentAndDefaultShareKey ==
  (keyPrev # NoKey /\ WithDefaults(keyNow.q) = WithDefaults(keyPrev.q))
    => keyNow.key = keyPrev.key

\* the number a page or limit parameter stands for, when it is a positive one
IsPositive(param) == ~parseInt(param).nan /\ parseInt(param).n > 0

\* C18: the page used is the page given if that is positive and 1 otherwise, the
\* limit used is the limit given if that is positive and 10 otherwise, and skip,
\* (page - 1) * limit, is not negative.
C18_PaginationDefaults ==
  answer.status # 0 =>
    /\ answer.pageNum = IF IsPositive(answer.q.page) THEN parseInt(answer.q.page).n ELSE 1
    /\ answer.limitNum = IF IsPositive(answer.q.limit) THEN parseInt(answer.q.limit).n ELSE 10
    /\ answer.skip >= 0

\* the rows of the table a request matches, for the status filters all, published
\* and unpublished
Matching(q) ==
  {id \in table :
     /\ q.filter = "published" => RowOf(id).published
     /\ q.filter = "unpublished" => ~RowOf(id).published
     /\ q.search # Undefined => Lower(q.search) \in RowOf(id).words}

\* C19: with T rows matching and page and limit positive, the list request returns
\* min(limit, max(0, T - (page - 1) * limit)) items and total = T.
C19_PageSizeAndTotal ==
  (answer.status # 0 /\ IsPositive(answer.q.page) /\ IsPositive(answer.q.limit)) =>
    LET T == Cardinality(Matching(answer.q))
        pg == parseInt(answer.q.page).n
        lim == parseInt(answer.q.limit).n
    IN  /\ answer.status = 200
        /\ Len(answer.items) = Min(lim, Max(0, T - (pg - 1) * lim))
        /\ answer.total = T

\* page 3 of a table of two matching rows, one row a page: no item, total 2
C19_Witness ==
  /\ answer.status = 200
  /\ IsPositive(answer.q.page) /\ parseInt(answer.q.page).n = 3
  /\ IsPositive(answer.q.limit) /\ parseInt(answer.q.limit).n = 1
  /\ answer.items = <<>>
  /\ answer.total = 2

\* a sort whose field or direction is not a recognized one, or has no direction
Unrecognized(sort) ==
  /\ sort.given
  /\ \/ sort.parts[1] \notin {"createdAt", "title", "author"}
     \/ Len(sort.parts) < 2
     \/ sort.parts[2] \notin {"asc", "desc"}

NewestFirst(rows) ==
  \A i, j \in DOMAIN rows : i < j => RowOf(rows[i]).createdAt >= RowOf(rows[j]).createdAt

\* C20: a list request with an unrecognized sort (and a page and limit the query
\* accepts) does not fail, and its rows are ordered as for createdAt:desc: by the
\* same clause, newest first.
C20_SortFallback ==
  (answer.status # 0 /\ answer.skip >= 0 /\ Unrecognized(answer.q.sort)) =>
    /\ answer.status = 200
    /\ answer.orderBy = orderByOf(SortText(<<"createdAt", "desc">>))
    /\ NewestFirst(answer.ordered)
    /\ answer.ordered \in
         Orderings(Matching(answer.q), orderByOf(SortText(<<"createdAt", "desc">>)))

\* sort=bogus:asc over rows of different age came back newest first
C20_Witness ==
  /\ answer.status = 200
  /\ answer.q.sort = SortText(<<"bogus", "asc">>)
  /\ Len(answer.ordered) >= 2
  /\ RowOf(answer.ordered[1]).createdAt > RowOf(answer.ordered[Len(answer.ordered)]).createdAt

\* C21: two executions of the list query over the same table and with the same
\* (search, statusFilter, sort, page, limit) return the same items in the same
\* order, also when rows tie on the sort key.
C21_RepeatedQuerySameItems ==
  (answer.status = 200 /\ repeat.status = 200) => repeat.items = answer.items

\* content that is absent or empty once the white space at its ends is taken off
Blank(content) ==
  \/ ~content.given
  \/ \A i \in DOMAIN content.text : content.text[i] \in {" ", "\t", "\n"}

\* C22: a createComment whose content is absent or empty after trimming is
\* answered with the validation error, stores no comment and removes no cache
\* entry; one whose content is not empty after trimming (and whose storage call
\* resolves) is answered 201 and its comment is stored with that content.
C22_CreateCommentValidation ==
  [][(threadOps' = threadOps + 1 /\ commentReq'.op = "createComment") =>
       IF Blank(commentReq'.content)
         THEN /\ commentReq'.status = 400
              /\ commentRows' = commentRows
              /\ commentCache' = commentCache
         ELSE commentReq'.storeOk =>
                /\ commentReq'.status = 201
                /\ commentRows[commentReq'.commentId] = NoComment
                /\ commentRows'[commentReq'.commentId] =
                     [post |-> commentReq'.postId, content |-> commentReq'.content]]_vars

\* content of white space only was refused while the comments of the post were
\* cached, and they still are
C22_Witness ==
  /\ commentReq.op = "createComment"
  /\ commentReq.status = 400
  /\ commentReq.content = Text(<<" ", " ">>)
  /\ isHit(commentCache, POST_COMMENTS(commentReq.postId))

\* C23: a deleteComment of an id that is not stored (the storage call answering)
\* gets the not-found answer, 404, and leaves the comments and the cache as they
\* were; no other failure of deleteComment gets that answer.
C23_DeleteMissingCommentNotFound ==
  [][(threadOps' = threadOps + 1 /\ commentReq'.op = "deleteComment") =>
       LET missing == commentRows[commentReq'.commentId] = NoComment
       IN  /\ (missing /\ commentReq'.storeOk) =>
                /\ commentReq'.status = 404
                /\ commentRows' = commentRows
                /\ commentCache' = commentCache
           /\ commentReq'.status = 404 => (missing /\ commentReq'.storeOk)]_vars

\* an id that no stored comment has was deleted and answered 404, with another
\* comment stored and an entry cached, both still there
C23_Witness ==
  /\ commentReq.op = "deleteComment"
  /\ commentReq.status = 404
  /\ \E c \in CommentIds : commentRows[c] # NoComment
  /\ DOMAIN commentCache # {}

\* C24: once N view requests have been answered 200 and none is in flight, the
\* post's views is N more than at first (0) and every other column of the post
\* is as it was, whatever the interleaving of the requests.
C24_ViewsRaisedByCallsOnly ==
  (\A p \in Procs : viewPc[p] = "idle")
    => /\ postRow.views = CreatedPost.views + viewsOk
       /\ [postRow EXCEPT !.views = CreatedPost.views] = CreatedPost

\* the answer of a mutating request that reports success
Success == {200, 201}

\* C25: a cache entry is removed only by a mutating request whose storage write
\* has succeeded, in the step that ends with its response; every successful
\* mutating request has made its purge by then; a mutating request whose write
\* fails removes no entry.
C25_PurgeAfterWriteBeforeResponse ==
  [][/\ (\E k \in DOMAIN cache : k \notin DOMAIN cache') =>
          /\ writePc = "purge"
          /\ writePc' = "idle"
          /\ raceDone'.role = "mutate"
          /\ raceDone'.status \in Success
     /\ (writePc # "idle" /\ writePc' = "idle" /\ raceDone'.status \in Success) =>
          /\ writePc = "purge"
          /\ writeReq.op = "createBlogPost" => written \in posts
          /\ writeReq.op \in {"deleteBlogPost", "deleteAllBlogPosts"} =>
               (writeReq.ids \cup {writeReq.post}) \cap posts = {}
          /\ cache' = purgeOf(writeReq.op, cache, written)
     /\ (writePc = "write" /\ writePc' = "idle") =>
          /\ raceDone'.status \notin Success
          /\ cache' = cache
          /\ <<posts', published', comments'>> = <<posts, published, comments>>]_vars

\* an update of a post was answered 200 and its purge removed the cached
\* all-posts list
C25_Witness ==
  /\ raceDone.role = "mutate"
  /\ raceDone.op = "updateBlogPost"
  /\ raceDone.status = 200
  /\ ALL_BLOG_POSTS \in raceDone.purged

\* C26: when an all-posts read and a post mutation have overlapped in any way and
\* both are over, the all_blog_posts entry, if there is one, is the list of the
\* posts now stored.
C26_NoStaleListAfterRace ==
  (readPc = "idle" /\ writePc = "idle" /\ isHit(cache, ALL_BLOG_POSTS))
    => get(cache, ALL_BLOG_POSTS) = getAll

\* C27: no answer of the public all-posts read (getAllPost) holds a stored post
\* that is not published, whatever admin reads, public reads and mutations were
\* served before.
C27_PublicReadOnlyPublished ==
  (last.op = "getAllPost" /\ last.status = 200)
    => \A postId \in last.body : postId \in posts => postId \in published

\* C28: when a like toggle ends in an error and no other toggle ran beside it, the
\* user's row is what findUnique saw when the call began (existingLike) and
\* Post.likes, which no earlier step of the call has written, is unchanged.
C28_FailedToggleLeavesNoTrace ==
  [][\A p \in Procs :
       (pc[p] # "idle" /\ pc'[p] = "idle" /\ result'[p].status = 500 /\ ~overlap) =>
         /\ likeRows'[reqUser[p]] = existingLike[p]
         /\ likes' = likes]_vars

\* C29: no stored comment has a content that is absent or empty after trimming,
\* whatever comment requests were served.
C29_NoBlankCommentStored ==
  \A c \in CommentIds : commentRows[c] # NoComment => ~Blank(commentRows[c].content)

\* C30: every 200 response of the cached list request, served from the cache or
\* not, is a result (posts, totalPosts, page, limit, totalPages) that getPaginated
\* gives for the request's own search, filter, sort, page and limit over the
\* unchanged table.
C30_CachedListEqualsQuery ==
  reply.status = 200 =>
    \E r \in listResponses(reply.q) : r.status = 200 /\ resultOf(r) = reply.result

====
